---------------------------- MODULE Spec2Model ----------------------------
(***************************************************************************)
(* Model of src/bot.py: a Telegram task bot.  Task rows live in the        *)
(* "tasks" table of the store (sb); one undo slot per user lives in        *)
(* ctx.bot_data.  Text is modelled as a sequence of one-character strings  *)
(* so that the regular expressions, int(), upper() and strptime() of the   *)
(* code are computed and not assumed.                                      *)
(***************************************************************************)
EXTENDS Integers, Sequences, FiniteSets, TLC

(***************************************************************************)
(* Characters and strings                                                  *)
(***************************************************************************)

\* Python None.  A one-element sequence holding a long string: different
\* from every text, which holds one-character strings only.
None == <<"<None>">>

LowerLetters == <<"a","b","c","d","e","f","g","h","i","j","k","l","m",
                  "n","o","p","q","r","s","t","u","v","w","x","y","z">>

UpperLetters == <<"A","B","C","D","E","F","G","H","I","J","K","L","M",
                  "N","O","P","Q","R","S","T","U","V","W","X","Y","Z">>

DigitChars == <<"0","1","2","3","4","5","6","7","8","9">>

\* \s of the re module (ASCII part)
IsSpace(c) == c \in {" ", "\t", "\n", "\r"}

\* \d of the re module (ASCII part)
IsDigit(c) == \E i \in 1..10 : DigitChars[i] = c

\* int() of one digit character
DigitVal(c) == (CHOOSE i \in 1..10 : DigitChars[i] = c) - 1

\* str.upper() of one character
UpperChar(c) ==
    IF \E i \in 1..26 : LowerLetters[i] = c
    THEN UpperLetters[CHOOSE i \in 1..26 : LowerLetters[i] = c]
    ELSE c

\* str.lower() of one character
LowerChar(c) ==
    IF \E i \in 1..26 : UpperLetters[i] = c
    THEN LowerLetters[CHOOSE i \in 1..26 : UpperLetters[i] = c]
    ELSE c

\* str.upper()
Upper(s) == [i \in 1..Len(s) |-> UpperChar(s[i])]

\* str.lower()
Lower(s) == [i \in 1..Len(s) |-> LowerChar(s[i])]

\* str.strip()
Strip(s) ==
    LET idx == {i \in 1..Len(s) : ~IsSpace(s[i])}
    IN  IF idx = {} THEN <<>>
        ELSE SubSeq(s, CHOOSE i \in idx : \A j \in idx : i <= j,
                       CHOOSE i \in idx : \A j \in idx : i >= j)

\* re.sub(r"\s+", " ", s): every maximal run of whitespace becomes one space
RECURSIVE CollapseWS(_)
CollapseWS(s) ==
    IF s = <<>> THEN <<>>
    ELSE IF IsSpace(s[1])
         THEN IF Len(s) >= 2 /\ IsSpace(s[2])
              THEN CollapseWS(Tail(s))
              ELSE <<" ">> \o CollapseWS(Tail(s))
         ELSE <<s[1]>> \o CollapseWS(Tail(s))

\* " ".join(words)
RECURSIVE JoinSpace(_)
JoinSpace(words) ==
    IF words = <<>> THEN <<>>
    ELSE IF Len(words) = 1 THEN words[1]
    ELSE words[1] \o <<" ">> \o JoinSpace(Tail(words))

\* s with the match at positions from..to (1-based, inclusive) cut out:
\* raw[:m.start()] + raw[m.end():]
CutMatch(s, from, to) == SubSeq(s, 1, from - 1) \o SubSeq(s, to + 1, Len(s))

\* the end of the maximal run of characters satisfying a class that starts
\* at position i (i - 1 when the run is empty): greedy \s* , \S+
SpaceRunEnd(s, i) ==
    IF \E j \in i..Len(s) : ~IsSpace(s[j])
    THEN (CHOOSE j \in i..Len(s) :
             ~IsSpace(s[j]) /\ \A k \in i..(j-1) : IsSpace(s[k])) - 1
    ELSE Len(s)

WordRunEnd(s, i) ==
    IF \E j \in i..Len(s) : IsSpace(s[j])
    THEN (CHOOSE j \in i..Len(s) :
             IsSpace(s[j]) /\ \A k \in i..(j-1) : ~IsSpace(s[k])) - 1
    ELSE Len(s)

\* the smallest member of a non-empty set of integers: re.search reports the
\* leftmost match
MinOf(S) == CHOOSE x \in S : \A y \in S : x <= y

NoMatch == [found |-> FALSE, from |-> 0, to |-> 0, g1 |-> <<>>, g2 |-> <<>>]

\* re.search(r"@(\S+)", raw)
SearchTag(raw) ==
    LET at == {i \in 1..Len(raw) :
                  raw[i] = "@" /\ i + 1 <= Len(raw) /\ ~IsSpace(raw[i+1])}
    IN  IF at = {} THEN NoMatch
        ELSE LET i == MinOf(at)
                 e == WordRunEnd(raw, i + 1)
             IN  [found |-> TRUE, from |-> i, to |-> e,
                  g1 |-> SubSeq(raw, i + 1, e), g2 |-> <<>>]

\* the positions where the two-character marker "|" + letter starts; the
\* letter is compared as given, or in both cases under re.IGNORECASE
MarkerAt(raw, i, letter, ignorecase) ==
    /\ i + 1 <= Len(raw)
    /\ raw[i] = "|"
    /\ IF ignorecase THEN LowerChar(raw[i+1]) = letter ELSE raw[i+1] = letter

\* re.search(r"\|e\s*(\S+)", raw, re.IGNORECASE)
SearchProject(raw) ==
    LET at == {i \in 1..Len(raw) :
                  /\ MarkerAt(raw, i, "e", TRUE)
                  /\ SpaceRunEnd(raw, i + 2) < Len(raw)}
    IN  IF at = {} THEN NoMatch
        ELSE LET i == MinOf(at)
                 w == SpaceRunEnd(raw, i + 2) + 1
                 e == WordRunEnd(raw, w)
             IN  [found |-> TRUE, from |-> i, to |-> e,
                  g1 |-> SubSeq(raw, w, e), g2 |-> <<>>]

\* re.search(r"\|p\s*([UuNn])\s*(\d)", raw)
SearchPriority(raw) ==
    LET letterAt(i) == SpaceRunEnd(raw, i + 2) + 1
        digitAt(i)  == SpaceRunEnd(raw, letterAt(i) + 1) + 1
        at == {i \in 1..Len(raw) :
                  /\ MarkerAt(raw, i, "p", FALSE)
                  /\ letterAt(i) <= Len(raw)
                  /\ raw[letterAt(i)] \in {"U", "u", "N", "n"}
                  /\ digitAt(i) <= Len(raw)
                  /\ IsDigit(raw[digitAt(i)])}
    IN  IF at = {} THEN NoMatch
        ELSE LET i == MinOf(at)
             IN  [found |-> TRUE, from |-> i, to |-> digitAt(i),
                  g1 |-> <<raw[letterAt(i)]>>, g2 |-> <<raw[digitAt(i)]>>]

\* re.search(r"\|f\s*(\d{6})", raw)
SearchDate(raw) ==
    LET digitsAt(i) == SpaceRunEnd(raw, i + 2) + 1
        at == {i \in 1..Len(raw) :
                  /\ MarkerAt(raw, i, "f", FALSE)
                  /\ digitsAt(i) + 5 <= Len(raw)
                  /\ \A k \in digitsAt(i)..(digitsAt(i) + 5) : IsDigit(raw[k])}
    IN  IF at = {} THEN NoMatch
        ELSE LET i == MinOf(at)
             IN  [found |-> TRUE, from |-> i, to |-> digitsAt(i) + 5,
                  g1 |-> SubSeq(raw, digitsAt(i), digitsAt(i) + 5),
                  g2 |-> <<>>]

\* The local variables of parse_task while it works through the text.
ParseStart(text) ==
    [raw |-> Strip(text), tag |-> None, project |-> None,
     priority_str |-> None, date_str |-> None]

\* the working state after a successful search: the match is cut out of
\* raw and the field is set; after a failed one nothing changes
Extracted(st, m, field, value) ==
    IF m.found
    THEN [st EXCEPT !.raw = CutMatch(st.raw, m.from, m.to), ![field] = value]
    ELSE st

\* "Extract @tag"
ExtractTagM(st, m) == Extracted(st, m, "tag", Upper(m.g1))

ExtractTag(st) == ExtractTagM(st, SearchTag(st.raw))

\* "Extract |e project"
ExtractProjectM(st, m) == Extracted(st, m, "project", m.g1)

ExtractProject(st) == ExtractProjectM(st, SearchProject(st.raw))

\* "Extract |p priority"
ExtractPriorityM(st, m) == Extracted(st, m, "priority_str", Upper(m.g1) \o m.g2)

ExtractPriority(st) == ExtractPriorityM(st, SearchPriority(st.raw))

\* "Extract |f date"
ExtractDateM(st, m) == Extracted(st, m, "date_str", m.g1)

ExtractDate(st) == ExtractDateM(st, SearchDate(st.raw))

\* the dict parse_task returns
ParseResult(st) ==
    [title        |-> Strip(CollapseWS(st.raw)),
     tag          |-> st.tag,
     project      |-> st.project,
     priority_str |-> st.priority_str,
     date_str     |-> st.date_str]

\* parse_task(text): tag, project, priority and date are searched for and
\* cut out in this order
parse_task(text) ==
    ParseResult(ExtractDate(ExtractPriority(ExtractProject(ExtractTag(
        ParseStart(text))))))

(***************************************************************************)
(* Scoring                                                                 *)
(***************************************************************************)

\* the words the code compares text with
W_FGR      == <<"F","G","R">>
W_CETS     == <<"C","E","T","S">>
W_CS       == <<"C","S">>
W_all      == <<"a","l","l">>
W_title    == <<"t","i","t","l","e">>
W_tag      == <<"t","a","g">>
W_project  == <<"p","r","o","j","e","c","t">>
W_priority == <<"p","r","i","o","r","i","t","y">>
W_date     == <<"d","a","t","e">>

\* the value of a run of digit characters
RECURSIVE DigitsVal(_)
DigitsVal(s) ==
    IF s = <<>> THEN 0
    ELSE 10 * DigitsVal(SubSeq(s, 1, Len(s) - 1)) + DigitVal(s[Len(s)])

\* datetime: leap years, days in a month, the proleptic ordinal of a date
IsLeap(y) == (y % 4 = 0) /\ ((y % 100 # 0) \/ (y % 400 = 0))

DaysInMonth(y, m) ==
    IF m = 2 THEN (IF IsLeap(y) THEN 29 ELSE 28)
    ELSE IF m \in {4, 6, 9, 11} THEN 30 ELSE 31

RECURSIVE DaysBeforeMonth(_, _)
DaysBeforeMonth(y, m) ==
    IF m = 1 THEN 0 ELSE DaysBeforeMonth(y, m - 1) + DaysInMonth(y, m - 1)

Ordinal(y, m, d) ==
    365 * (y - 1) + ((y - 1) \div 4) - ((y - 1) \div 100) + ((y - 1) \div 400)
    + DaysBeforeMonth(y, m) + d

\* The alternatives of the %d and %m directives, in the order the regular
\* expression of strptime tries them; each gives the number of characters
\* it takes at position i, 0 when it does not match there.
DayAlt(s, i, k) ==
    LET c1 == IF i <= Len(s) THEN s[i] ELSE ""
        c2 == IF i + 1 <= Len(s) THEN s[i+1] ELSE ""
    IN  CASE k = 1 -> IF c1 = "3" /\ c2 \in {"0", "1"} THEN 2 ELSE 0
          [] k = 2 -> IF c1 \in {"1", "2"} /\ IsDigit(c2) THEN 2 ELSE 0
          [] k = 3 -> IF c1 = "0" /\ IsDigit(c2) /\ c2 # "0" THEN 2 ELSE 0
          [] k = 4 -> IF IsDigit(c1) /\ c1 # "0" THEN 1 ELSE 0
          [] OTHER -> IF c1 = " " /\ IsDigit(c2) /\ c2 # "0" THEN 2 ELSE 0

MonthAlt(s, i, k) ==
    LET c1 == IF i <= Len(s) THEN s[i] ELSE ""
        c2 == IF i + 1 <= Len(s) THEN s[i+1] ELSE ""
    IN  CASE k = 1 -> IF c1 = "1" /\ c2 \in {"0", "1", "2"} THEN 2 ELSE 0
          [] k = 2 -> IF c1 = "0" /\ IsDigit(c2) /\ c2 # "0" THEN 2 ELSE 0
          [] OTHER -> IF IsDigit(c1) /\ c1 # "0" THEN 1 ELSE 0

NoDate == [ok |-> FALSE, ord |-> 0]

\* the year of %y: 69..99 are 1969..1999, 0..68 are 2000..2068
YearOf(yy) == IF yy >= 69 THEN 1900 + yy ELSE 2000 + yy

\* datetime.date(y, m, d): a day the month does not have is a ValueError
MakeDate(d, m, y) ==
    IF d > DaysInMonth(y, m) THEN NoDate
    ELSE [ok |-> TRUE, ord |-> Ordinal(y, m, d)]

\* two digits follow a day of dl and a month of ml characters
YearFits(s, dl, ml) ==
    /\ ml > 0
    /\ dl + ml + 2 <= Len(s)
    /\ IsDigit(s[dl + ml + 1])
    /\ IsDigit(s[dl + ml + 2])

MonthFits(s, dl, km) == dl > 0 /\ YearFits(s, dl, MonthAlt(s, 1 + dl, km))

\* the regular expression matches with alternative kd of %d and km of %m
Fits(s, kd, km) == MonthFits(s, DayAlt(s, 1, kd), km)

\* the match with a day of dl and a month of ml characters, as a date;
\* text left after the match is "unconverted data remains"
DateOfLens(s, dl, ml) ==
    IF 2 + dl + ml # Len(s) THEN NoDate
    ELSE MakeDate(DigitsVal(SelectSeq(SubSeq(s, 1, dl), IsDigit)),
                  DigitsVal(SubSeq(s, 1 + dl, dl + ml)),
                  YearOf(DigitsVal(SubSeq(s, 1 + dl + ml, 2 + dl + ml))))

DateOfSplit(s, dl, km) == DateOfLens(s, dl, MonthAlt(s, 1 + dl, km))

\* The pairs of alternatives are numbered 0..14 in backtracking order; the
\* first pair from p on with which the regular expression matches, -1 when
\* there is none.
RECURSIVE FirstFit(_, _)
FirstFit(s, p) ==
    IF p > 14 THEN -1
    ELSE IF Fits(s, (p \div 3) + 1, (p % 3) + 1) THEN p
    ELSE FirstFit(s, p + 1)

DateOfTry(s, p) ==
    IF p < 0 THEN NoDate
    ELSE DateOfSplit(s, DayAlt(s, 1, (p \div 3) + 1), (p % 3) + 1)

\* datetime.strptime(s, "%d%m%y").date(), as its ordinal; ok is FALSE where
\* strptime raises ValueError.  The first match in backtracking order is
\* taken.
strptime(s) == DateOfTry(s, FirstFit(s, 0))

\* the thresholds with "<" in place of "<="
DeltaValueStrict(delta) ==
    IF delta <= 0 THEN 3
    ELSE IF delta < 3 THEN 3
    ELSE IF delta < 15 THEN 2
    ELSE 1

\* the value of a date that is delta days away
DeltaValue(delta) ==
    IF delta <= 0 THEN 3
    ELSE IF delta <= 3 THEN 3
    ELSE IF delta <= 15 THEN 2
    ELSE 1

DateValue(d, today) == IF ~d.ok THEN 0 ELSE DeltaValue(d.ord - today)

\* calc_date_value(date_str), with date.today() as the ordinal today
calc_date_value(date_str, today) ==
    IF date_str = None \/ date_str = <<>> THEN 0
    ELSE DateValue(strptime(date_str), today)

\* calc_priority_value(priority_str): ok is FALSE where the code raises
\* (IndexError of priority_str[1], ValueError of int())
calc_priority_value(priority_str) ==
    IF priority_str = None \/ priority_str = <<>> THEN [ok |-> TRUE, v |-> 0]
    ELSE IF Len(priority_str) < 2 THEN [ok |-> FALSE, v |-> 0]
    ELSE IF ~IsDigit(priority_str[2]) THEN [ok |-> FALSE, v |-> 0]
    ELSE [ok |-> TRUE,
          v  |-> (IF priority_str[1] = "U" THEN 1 ELSE -1)
                 + DigitVal(priority_str[2])]

\* TAG_VALUES.get(tag, 0) if tag else 0
TagValue(tag) ==
    IF tag = None \/ tag = <<>> THEN 0
    ELSE IF tag = W_FGR THEN 3
    ELSE IF tag = W_CETS THEN 3
    ELSE IF tag = W_CS THEN 2
    ELSE 0

\* tag_val + calc_priority_value(...) + calc_date_value(...)
TotalOf(tag_val, p, date_val) ==
    [ok |-> p.ok, v |-> tag_val + p.v + date_val]

\* calc_total_score(tag, priority_str, date_str)
calc_total_score(tag, priority_str, date_str, today) ==
    TotalOf(TagValue(tag), calc_priority_value(priority_str),
            calc_date_value(date_str, today))

(***************************************************************************)
(* State                                                                   *)
(***************************************************************************)

VARIABLES
    tasks,        \* the rows of the store's "tasks" table (a list of records)
    next_row_id,  \* the store's generator of the primary key "id"
    bot_data,     \* ctx.bot_data["undo_<user_id>"], per user
    reply,        \* what the last handler run answered, and to whom
    before,       \* history: each user's rows just before the user's last
                  \*          successful create / done / del / edit
    hist,         \* history: who ran which command, for the handler runs
                  \*          that changed tasks or bot_data
    idle,         \* history: the last handler run changed neither
    input,        \* the arguments of a call of one helper function on its own
    output,       \* what that call returned
    updates,      \* the updates received that no handler was started for yet
    running       \* the handler runs in flight, each with its position

vars == <<tasks, next_row_id, bot_data, reply, before, hist, idle,
          input, output, updates, running>>

\* The largest task number next_available_id gives out.  The code has
\* range(1, 100), that is 99; the model runs the same scan over a shorter
\* range so that a user can use up every number within a few commands.
MaxTaskId == 3

\* A run of the model holds at most MaxSteps handler runs that change tasks
\* or bot_data, and ends with the first handler run that changes neither
\* (what it leaves is the state it found, so nothing new can follow it).
MaxSteps == 3

\* update.effective_user.id
Users == {1, 2}

\* the order in which the store returns the rows of a select; the code
\* gives no order_by, so both are tried
Orders == {"asc", "desc"}

NoRow == [id |-> 0, user_id |-> 0, task_id |-> 0, title |-> None,
          tag |-> None, project |-> None, priority_str |-> None,
          date_str |-> None, done |-> FALSE]

\* bot_data.pop(key, None) of an absent key
NoUndo == [action |-> "none", row_id |-> 0, task_ids |-> <<>>,
           data |-> NoRow, field |-> "", old_value |-> None]

\* no helper function is called on its own
NoInput == [fn |-> "none", text |-> None, today |-> 0]

NoOutput == [done |-> FALSE, v |-> 0]

NoReply == [user |-> 0, cmd |-> "none", kind |-> "none"]

\* update.message.reply_text(...): which handler answered whom, and what
Answer(u, cmd, kind) == [user |-> u, cmd |-> cmd, kind |-> kind]

(***************************************************************************)
(* The store                                                               *)
(***************************************************************************)

\* the table is the list of its rows in the order a scan meets them; an
\* insert puts the row at the end

\* the rows of a list, as a set
RowSet(rows) == {rows[i] : i \in 1..Len(rows)}

\* .eq("user_id", user_id), as a set: what a user owns
RowsOf(rows, user_id) == {r \in RowSet(rows) : r.user_id = user_id}

Reverse(s) == [i \in 1..Len(s) |-> s[Len(s) + 1 - i]]

\* .execute().data of a select: the rows as a list, in the store's order
Fetch(rows, order) == IF order = "asc" THEN rows ELSE Reverse(rows)

\* the same select without .eq("done", False)
SelectAnyState(rows, user_id, task_id, order) ==
    LET hit(r) == r.user_id = user_id /\ r.task_id = task_id
    IN  Fetch(SelectSeq(rows, hit), order)

\* .select("*").eq("user_id", u).eq("task_id", n).eq("done", False)
SelectActive(rows, user_id, task_id, order) ==
    LET hit(r) == r.user_id = user_id /\ r.task_id = task_id /\ ~r.done
    IN  Fetch(SelectSeq(rows, hit), order)

\* .update({"done": flag}).eq("id", id)
SetDone(rows, id, flag) ==
    [i \in 1..Len(rows) |->
        IF rows[i].id = id THEN [rows[i] EXCEPT !.done = flag] ELSE rows[i]]

\* an update without the .eq("id", id): every row gets the value
SetFieldAll(rows, id, field, value) ==
    [i \in 1..Len(rows) |-> [rows[i] EXCEPT ![field] = value]]

\* .update({field: value}).eq("id", id)
SetField(rows, id, field, value) ==
    [i \in 1..Len(rows) |->
        IF rows[i].id = id THEN [rows[i] EXCEPT ![field] = value] ELSE rows[i]]

\* .delete().eq("id", id)
DeleteRow(rows, id) ==
    LET other(r) == r.id # id
    IN  SelectSeq(rows, other)

\* .insert(record)
InsertRow(rows, record) == Append(rows, record)

\* s occurs in t (the % ... % of ilike)
Contains(t, s) ==
    \E i \in 0..(Len(t) - Len(s)) : SubSeq(t, i + 1, i + Len(s)) = s

\* .ilike("project", "%" + project + "%"), for a pattern without % and _
ILike(value, pattern) ==
    value # None /\ Contains(Lower(value), Lower(pattern))

\* one more than the number of ids in use, instead of the first gap
NextByCount(rows, user_id) ==
    LET usedIds == {r.task_id : r \in RowsOf(rows, user_id)}
    IN  IF Cardinality(usedIds) < MaxTaskId
        THEN Cardinality(usedIds) + 1 ELSE MaxTaskId

\* the first free number, and 0 for "none" when every number is in use
NextOrNone(rows, user_id) ==
    LET usedIds == {r.task_id : r \in RowsOf(rows, user_id)}
    IN  IF \E i \in 1..MaxTaskId : i \notin usedIds
        THEN CHOOSE i \in 1..MaxTaskId :
                 i \notin usedIds /\ \A j \in 1..(i - 1) : j \in usedIds
        ELSE 0

\* next_available_id(user_id): the first i of range(1, MaxTaskId + 1) not in
\* used, MaxTaskId when there is none
next_available_id(rows, user_id) ==
    LET usedIds == {r.task_id : r \in RowsOf(rows, user_id)}
    IN  IF \E i \in 1..MaxTaskId : i \notin usedIds
        THEN CHOOSE i \in 1..MaxTaskId :
                 i \notin usedIds /\ \A j \in 1..(i - 1) : j \in usedIds
        ELSE MaxTaskId

\* the rows of a scored list that score s, then those that score s - 1, ...
\* down to lo, each group in the order of the list
RECURSIVE ByScoreDown(_, _, _)
ByScoreDown(rows, s, lo) ==
    IF s < lo THEN <<>>
    ELSE LET same(x) == x.score = s
         IN  SelectSeq(rows, same) \o ByScoreDown(rows, s - 1, lo)

\* rows.sort(key=lambda x: x["_score"], reverse=True): list.sort is stable,
\* also with reverse=True, so the rows come out by falling score and rows
\* of one score keep their order
SortByScore(rows) ==
    IF rows = <<>> THEN <<>>
    ELSE LET scores == {rows[i].score : i \in 1..Len(rows)}
             hi == CHOOSE x \in scores : \A y \in scores : y <= x
             lo == CHOOSE x \in scores : \A y \in scores : x <= y
         IN  ByScoreDown(rows, hi, lo)

\* the query of get_tasks without .eq("user_id", user_id)
MatchingAnyUser(rows, user_id, tag, project) ==
    LET hit(r) ==
            /\ ~r.done
            /\ (tag # None /\ tag # <<>>) => r.tag = Upper(tag)
            /\ (project # None /\ project # <<>>) => ILike(r.project, project)
    IN  SelectSeq(rows, hit)

\* the rows the query of get_tasks selects
Matching(rows, user_id, tag, project) ==
    LET hit(r) ==
            /\ r.user_id = user_id
            /\ ~r.done
            /\ (tag # None /\ tag # <<>>) => r.tag = Upper(tag)
            /\ (project # None /\ project # <<>>) => ILike(r.project, project)
    IN  SelectSeq(rows, hit)

\* r["_score"] = calc_total_score(...) for every fetched row
Scored(fetched, day) ==
    [i \in 1..Len(fetched) |->
        [row |-> fetched[i],
         s   |-> calc_total_score(fetched[i].tag, fetched[i].priority_str,
                                  fetched[i].date_str, day)]]

\* what get_tasks returns: ok is FALSE when scoring a row raised; rows is
\* the scored and sorted list
Sorted(scored) ==
    [ok   |-> \A i \in 1..Len(scored) : scored[i].s.ok,
     rows |-> SortByScore([i \in 1..Len(scored) |->
                  [row |-> scored[i].row, score |-> scored[i].s.v]])]

\* get_tasks(user_id, tag, project)
get_tasks(rows, user_id, tag, project, day, order) ==
    Sorted(Scored(Fetch(Matching(rows, user_id, tag, project), order), day))

\* int(token): ok is FALSE where int() raises ValueError
ParseInt(token) ==
    LET signed == token # <<>> /\ token[1] \in {"+", "-"}
        body   == IF signed THEN Tail(token) ELSE token
        wellFormed ==
            /\ body # <<>>
            /\ IsDigit(body[1]) /\ IsDigit(body[Len(body)])
            /\ \A i \in 1..Len(body) : IsDigit(body[i]) \/ body[i] = "_"
            /\ \A i \in 1..(Len(body) - 1) : ~(body[i] = "_" /\ body[i+1] = "_")
        value  == DigitsVal(SelectSeq(body, IsDigit))
    IN  IF ~wellFormed THEN [ok |-> FALSE, v |-> 0]
        ELSE [ok |-> TRUE,
              v  |-> IF signed /\ token[1] = "-" THEN 0 - value ELSE value]

\* a field_map that takes any other key for the title
FieldMapLax(field) ==
    IF field = W_tag THEN "tag"
    ELSE IF field = W_project THEN "project"
    ELSE IF field = W_priority THEN "priority_str"
    ELSE IF field = W_date THEN "date_str"
    ELSE "title"

\* field_map of cmd_edit; "" for a key it does not have
FieldMap(field) ==
    IF field = W_title THEN "title"
    ELSE IF field = W_tag THEN "tag"
    ELSE IF field = W_project THEN "project"
    ELSE IF field = W_priority THEN "priority_str"
    ELSE IF field = W_date THEN "date_str"
    ELSE ""

\* ctx.bot_data["undo_<user_id>"] = entry
StoreUndo(slots, user_id, entry) == [slots EXCEPT ![user_id] = entry]

\* ctx.bot_data.get in place of pop: the entry stays
PeekUndo(slots, user_id) == slots

\* ctx.bot_data.pop("undo_<user_id>", None): the slots left
PopUndo(slots, user_id) == [slots EXCEPT ![user_id] = NoUndo]

(***************************************************************************)
(* Inputs                                                                  *)
(***************************************************************************)

\* message texts that are not commands
Texts ==
    { <<"b"," ","@","c","s"," ","|","p","U","2"," ","|","f","1","4","0","2","2","6">>,
      <<"@","x">> }

\* ctx.args of /done
DoneArgs ==
    { << <<"2">> >>, << <<"3">> >>, << <<"A","l","l">> >>, << <<"x">> >> }

\* ctx.args of /del
DelArgs == { << <<"2">> >>, << <<"3">> >>, << <<"x">> >> }

\* ctx.args of /edit
EditArgs ==
    { << <<"3">>, W_priority, <<"U">> >>,
      << <<"2">>, <<"T","a","g">>, <<"c","s">>, <<"x">> >>,
      << <<"x">>, W_title, <<"z">> >>,
      << <<"3">>, <<"c","o","l","o","r">>, <<"z">> >> }

\* ctx.args of /show
ShowArgs == { <<>>, << <<"@","c","s">> >> }

\* the values date.today() takes: 10 and 11 February 2026
Today0 == Ordinal(2026, 2, 10)

Days == {Today0, Today0 + 1}

\* The rows the store holds when the bot starts, left by earlier runs: open
\* tasks 1 and 3 of user 1 and open task 2 of user 2.
PlainRow(i, u, n, title) ==
    [id |-> i, user_id |-> u, task_id |-> n, title |-> title, tag |-> None,
     project |-> None, priority_str |-> None, date_str |-> None,
     done |-> FALSE]

StartRows ==
    <<PlainRow(1, 1, 1, <<"a">>), PlainRow(3, 2, 2, <<"a">>),
      PlainRow(5, 1, 3, <<"a">>)>>

StartRowId == 6

(***************************************************************************)
(* Init: the process has just started; the store holds what earlier runs   *)
(* left, bot_data is empty                                                 *)
(***************************************************************************)
Started ==
    /\ tasks = StartRows
    /\ next_row_id = StartRowId
    /\ bot_data = [u \in Users |-> NoUndo]
    /\ reply = NoReply
    /\ before = [u \in Users |-> RowsOf(tasks, u)]
    /\ hist = <<>>
    /\ idle = FALSE
    /\ updates = <<>>
    /\ running = <<>>

Init ==
    /\ Started
    /\ input = NoInput
    /\ output = NoOutput

\* a handler run that changes neither the store nor bot_data
OnlyReply(r) ==
    /\ reply' = r
    /\ idle' = TRUE
    /\ UNCHANGED <<tasks, next_row_id, bot_data, before, hist, input, output,
                   updates, running>>

\* a handler run that applied a mutation for user_id
Mutated(user_id, rows, slots, r) ==
    /\ Len(hist) < MaxSteps
    /\ tasks' = rows
    /\ bot_data' = slots
    /\ reply' = r
    /\ before' = [before EXCEPT ![user_id] = RowsOf(tasks, user_id)]
    /\ hist' = Append(hist, [user |-> user_id, cmd |-> r.cmd])
    /\ UNCHANGED <<idle, input, output, updates, running>>

(***************************************************************************)
(* Handlers                                                                *)
(***************************************************************************)

\* handle_message: any text that is not a command creates a task
handle_message(user_id, message) ==
    /\ ~idle
    /\ LET text   == Strip(message)
           parsed == parse_task(text)
           task_id == next_available_id(tasks, user_id)
           record == [id |-> next_row_id, user_id |-> user_id,
                      task_id |-> task_id, title |-> parsed.title,
                      tag |-> parsed.tag, project |-> parsed.project,
                      priority_str |-> parsed.priority_str,
                      date_str |-> parsed.date_str, done |-> FALSE]
       IN  IF text = <<>>
           THEN OnlyReply(Answer(user_id, "create", "ignored"))
           ELSE IF parsed.title = <<>>
           THEN OnlyReply(Answer(user_id, "create", "title_required"))
           ELSE /\ Mutated(user_id, InsertRow(tasks, record),
                           StoreUndo(bot_data, user_id,
                               [NoUndo EXCEPT !.action = "create",
                                              !.row_id = record.id]),
                           Answer(user_id, "create", "created"))
                /\ next_row_id' = next_row_id + 1

\* the tag filter of /show: the text after "@", None without one
ShowTag(args) ==
    IF args # <<>> /\ JoinSpace(args)[1] = "@"
    THEN Tail(JoinSpace(args)) ELSE None

\* the project filter of /show: the text after "p ", else the whole text
ShowProject(args) ==
    IF args = <<>> \/ JoinSpace(args)[1] = "@" THEN None
    ELSE IF /\ Len(JoinSpace(args)) >= 2
            /\ Lower(SubSeq(JoinSpace(args), 1, 2)) = <<"p", " ">>
    THEN Strip(SubSeq(JoinSpace(args), 3, Len(JoinSpace(args))))
    ELSE JoinSpace(args)

\* what /show answers for the list get_tasks gave
ShowAnswer(user_id, got) ==
    IF ~got.ok THEN Answer(user_id, "show", "error")
    ELSE IF got.rows = <<>> THEN Answer(user_id, "show", "empty_list")
    ELSE Answer(user_id, "show", "list")

\* cmd_show: /show, /show @TAG, /show p PROJECT, /show PROJECT
cmd_show(user_id, args, day, order) ==
    /\ ~idle
    /\ OnlyReply(ShowAnswer(user_id,
           get_tasks(tasks, user_id, ShowTag(args), ShowProject(args),
                     day, order)))

\* for each id of the list: .update({"done": flag}).eq("id", id)
SetDoneAll(rows, ids, flag) ==
    LET idSet == {ids[i] : i \in 1..Len(ids)}
    IN  [i \in 1..Len(rows) |->
            IF rows[i].id \in idSet
            THEN [rows[i] EXCEPT !.done = flag] ELSE rows[i]]

\* cmd_done: /done ID, /done all
cmd_done(user_id, args, day, order) ==
    /\ ~idle
    /\ IF args = <<>>
       THEN OnlyReply(Answer(user_id, "done", "usage"))
       ELSE IF Lower(args[1]) = W_all
       THEN LET got == get_tasks(tasks, user_id, None, None, day, order)
                ids == [i \in 1..Len(got.rows) |-> got.rows[i].row.id]
            IN  IF ~got.ok
                THEN OnlyReply(Answer(user_id, "done_all", "error"))
                ELSE IF got.rows = <<>>
                THEN OnlyReply(Answer(user_id, "done_all", "no_pending"))
                ELSE /\ Mutated(user_id, SetDoneAll(tasks, ids, TRUE),
                                StoreUndo(bot_data, user_id,
                                    [NoUndo EXCEPT !.action = "done_all",
                                                   !.task_ids = ids]),
                                Answer(user_id, "done_all", "completed"))
                     /\ UNCHANGED next_row_id
       ELSE LET task_id == ParseInt(args[1])
                row     == SelectActive(tasks, user_id, task_id.v, order)
            IN  IF ~task_id.ok
                THEN OnlyReply(Answer(user_id, "done", "not_number"))
                ELSE IF row = <<>>
                THEN OnlyReply(Answer(user_id, "done", "not_found"))
                ELSE /\ Mutated(user_id, SetDone(tasks, row[1].id, TRUE),
                                StoreUndo(bot_data, user_id,
                                    [NoUndo EXCEPT !.action = "done",
                                                   !.row_id = row[1].id]),
                                Answer(user_id, "done", "completed"))
                     /\ UNCHANGED next_row_id

\* cmd_del: /del ID
cmd_del(user_id, args, order) ==
    /\ ~idle
    /\ IF args = <<>>
       THEN OnlyReply(Answer(user_id, "del", "usage"))
       ELSE LET task_id == ParseInt(args[1])
                row     == SelectActive(tasks, user_id, task_id.v, order)
            IN  IF ~task_id.ok
                THEN OnlyReply(Answer(user_id, "del", "not_number"))
                ELSE IF row = <<>>
                THEN OnlyReply(Answer(user_id, "del", "not_found"))
                ELSE /\ Mutated(user_id, DeleteRow(tasks, row[1].id),
                                StoreUndo(bot_data, user_id,
                                    [NoUndo EXCEPT !.action = "delete",
                                                   !.data = row[1]]),
                                Answer(user_id, "del", "deleted"))
                     /\ UNCHANGED next_row_id

\* cmd_edit: /edit ID field value
cmd_edit(user_id, args, order) ==
    /\ ~idle
    /\ IF Len(args) < 3
       THEN OnlyReply(Answer(user_id, "edit", "usage"))
       ELSE LET task_id  == ParseInt(args[1])
                field    == Lower(args[2])
                value    == JoinSpace(SubSeq(args, 3, Len(args)))
                row      == SelectActive(tasks, user_id, task_id.v, order)
                db_field == FieldMap(field)
                stored   == IF field = W_tag THEN Upper(value) ELSE value
            IN  IF ~task_id.ok
                THEN OnlyReply(Answer(user_id, "edit", "not_number"))
                ELSE IF row = <<>>
                THEN OnlyReply(Answer(user_id, "edit", "not_found"))
                ELSE IF db_field = ""
                THEN OnlyReply(Answer(user_id, "edit", "bad_field"))
                ELSE /\ Mutated(user_id,
                                SetField(tasks, row[1].id, db_field, stored),
                                StoreUndo(bot_data, user_id,
                                    [NoUndo EXCEPT !.action = "edit",
                                                   !.row_id = row[1].id,
                                                   !.field = db_field,
                                                   !.old_value = row[1][db_field]]),
                                Answer(user_id, "edit", "edited"))
                     /\ UNCHANGED next_row_id

\* an inverse that puts a deleted row back as a completed one
UndoDeleteAsDone(rows, undo) ==
    IF undo.action = "done" THEN SetDone(rows, undo.row_id, FALSE)
    ELSE IF undo.action = "done_all" THEN SetDoneAll(rows, undo.task_ids, FALSE)
    ELSE IF undo.action = "delete"
    THEN InsertRow(rows, [undo.data EXCEPT !.done = TRUE])
    ELSE IF undo.action = "edit"
    THEN SetField(rows, undo.row_id, undo.field, undo.old_value)
    ELSE rows

\* Line 349 of the source, data.pop("_score", None), is indented by seven
\* spaces and Python rejects the file for it; it is read here as a statement
\* of the delete branch, where it removes nothing: the row cmd_del stored
\* has no "_score".
\* the store after the inverse of the popped action; a "create" entry has
\* no branch in cmd_undo and leaves the store as it is
UndoEffect(rows, undo) ==
    IF undo.action = "done" THEN SetDone(rows, undo.row_id, FALSE)
    ELSE IF undo.action = "done_all" THEN SetDoneAll(rows, undo.task_ids, FALSE)
    ELSE IF undo.action = "delete" THEN InsertRow(rows, undo.data)
    ELSE IF undo.action = "edit"
    THEN SetField(rows, undo.row_id, undo.field, undo.old_value)
    ELSE rows

\* what cmd_undo answers after the inverse of the popped action
UndoAnswer(undo) ==
    IF undo.action = "done" THEN "restored"
    ELSE IF undo.action = "done_all" THEN "restored_all"
    ELSE IF undo.action = "delete" THEN "reinserted"
    ELSE IF undo.action = "edit" THEN "reverted"
    ELSE "no_answer"

\* cmd_undo: /undo
cmd_undo(user_id) ==
    /\ ~idle
    /\ LET undo == bot_data[user_id]
       IN  IF undo = NoUndo
           THEN OnlyReply(Answer(user_id, "undo", "nothing_to_undo"))
           ELSE /\ Len(hist) < MaxSteps
                /\ bot_data' = PopUndo(bot_data, user_id)
                /\ tasks' = UndoEffect(tasks, undo)
                /\ reply' = Answer(user_id, "undo", UndoAnswer(undo))
                /\ hist' = Append(hist, [user |-> user_id, cmd |-> "undo"])
                /\ UNCHANGED <<next_row_id, before, idle, input, output,
                               updates, running>>

Next ==
    \/ \E u \in Users, t \in Texts : handle_message(u, t)
    \/ \E u \in Users, a \in ShowArgs, d \in Days, o \in Orders :
          cmd_show(u, a, d, o)
    \/ \E u \in Users, a \in DoneArgs, d \in Days, o \in Orders :
          cmd_done(u, a, d, o)
    \/ \E u \in Users, a \in DelArgs, o \in Orders : cmd_del(u, a, o)
    \/ \E u \in Users, a \in EditArgs, o \in Orders : cmd_edit(u, a, o)
    \/ \E u \in Users : cmd_undo(u)

Spec == Init /\ [][Next]_vars


(***************************************************************************)
(* Properties                                                              *)
(***************************************************************************)

\* the commands of user u that changed tasks or bot_data, oldest first
CmdsOf(u) ==
    LET mine(h) == h.user = u
        runs == SelectSeq(hist, mine)
    IN  [i \in 1..Len(runs) |-> runs[i].cmd]

\* the last commands of user u that changed tasks or bot_data are cmds
EndsWith(u, cmds) ==
    /\ Len(CmdsOf(u)) >= Len(cmds)
    /\ SubSeq(CmdsOf(u), Len(CmdsOf(u)) - Len(cmds) + 1, Len(CmdsOf(u))) = cmds

\* the rows of a set that are not completed
Open(rowset) == {r \in rowset : ~r.done}

\* the mutating commands other than undo
Mutations == {"create", "done", "done_all", "del", "edit"}

\* the action a mutating command records in the undo slot
ActionOf(cmd) == IF cmd = "del" THEN "delete" ELSE cmd

\* a handler run that leaves the store and every undo slot as they were
Untouched ==
    /\ tasks' = tasks
    /\ bot_data' = bot_data
    /\ next_row_id' = next_row_id

\* the step is answered to user u by the handler of cmd; every handler
\* answers so, and testing it first spares evaluating the other handlers
AnsweredBy(u, cmd) == reply'.user = u /\ reply'.cmd = cmd

\* token is a plain decimal number
Numeric(token) ==
    token # <<>> /\ \A i \in 1..Len(token) : IsDigit(token[i])

\* token is the number of an open task of user u
Resolves(u, token) ==
    /\ Numeric(token)
    /\ \E r \in Open(RowsOf(tasks, u)) : r.task_id = DigitsVal(token)

\* token holds a letter, so int() rejects it
NotNumeric(token) ==
    \E i \in 1..Len(token) : UpperChar(token[i]) # LowerChar(token[i])

\* C1 (as stated): in every reachable state no two open tasks of one user
\* have the same task_id.
C1_UniqueNumbers ==
    \A u \in Users : \A r1, r2 \in Open(RowsOf(tasks, u)) :
        r1.task_id = r2.task_id => r1.id = r2.id

\* C1 (amended): in every reachable state no two open tasks of one user
\* have the same task_id below MaxTaskId; MaxTaskId itself is given out
\* again when every number is in use.
C1_UniqueBelowMax ==
    \A u \in Users : \A r1, r2 \in Open(RowsOf(tasks, u)) :
        (r1.task_id = r2.task_id /\ r1.task_id < MaxTaskId) => r1.id = r2.id

\* a user has created a task, a command has been undone, and the user holds
\* open tasks with different numbers
C1_Witness ==
    \E u \in Users :
        /\ \E i \in 1..Len(CmdsOf(u)) : CmdsOf(u)[i] = "create"
        /\ \E i \in 1..Len(CmdsOf(u)) : CmdsOf(u)[i] = "undo"
        /\ Cardinality({r.task_id : r \in Open(RowsOf(tasks, u))}) >= 3

\* C2: a create that succeeded gave the new task the smallest number of
\* 1..MaxTaskId that no open task of the user held before, so the number
\* of a completed or deleted task is given out again.
C2_SmallestNotOpen ==
    \A u \in Users :
        (reply = Answer(u, "create", "created")
         /\ \E i \in 1..MaxTaskId : i \notin {r.task_id : r \in Open(before[u])})
        => \A r \in RowsOf(tasks, u) :
               r.id = bot_data[u].row_id
               => /\ r.task_id \notin {x.task_id : x \in Open(before[u])}
                  /\ \A j \in 1..(r.task_id - 1) :
                         j \in {x.task_id : x \in Open(before[u])}

\* C3: a mutating command that succeeded leaves its own action in the
\* user's undo slot, and after two such commands of one user an undo takes
\* back the second only: the user's rows are those the first command left.
C3_UndoTakesBackSecond ==
    \A u \in Users :
        /\ (reply.user = u /\ reply.cmd \in Mutations
            /\ reply.kind \in {"created", "completed", "deleted", "edited"})
           => bot_data[u].action = ActionOf(reply.cmd)
        /\ (/\ Len(CmdsOf(u)) >= 3
            /\ CmdsOf(u)[Len(CmdsOf(u))] = "undo"
            /\ CmdsOf(u)[Len(CmdsOf(u)) - 1] \in Mutations
            /\ CmdsOf(u)[Len(CmdsOf(u)) - 2] \in Mutations)
           => RowsOf(tasks, u) = before[u]

\* C4: every run of cmd_undo leaves the user's slot empty; with an empty
\* slot it answers "nothing to undo" and changes no row and no slot, and so
\* does an undo that follows the user's undo with no mutation in between.
C4_UndoOneShot ==
    [][\A u \in Users :
        cmd_undo(u) =>
            /\ bot_data'[u] = NoUndo
            /\ (bot_data[u] = NoUndo \/ EndsWith(u, <<"undo">>))
               => /\ reply' = Answer(u, "undo", "nothing_to_undo")
                  /\ Untouched]_vars

\* an undo that found an entry was followed by the same user's undo, which
\* answered "nothing to undo"
C4_Witness ==
    \E u \in Users :
        /\ EndsWith(u, <<"undo">>)
        /\ reply = Answer(u, "undo", "nothing_to_undo")

\* C5: after a del and the user's next command undo, the user's rows are
\* the rows before the del: the deleted row is back with the same id,
\* task_id, title, tag, project, priority_str and date_str, and open.
C5_DelUndoRestores ==
    \A u \in Users :
        EndsWith(u, <<"del", "undo">>)
        => /\ RowsOf(tasks, u) = before[u]
           /\ bot_data[u] = NoUndo

\* a task created with tag, priority and date was deleted and the delete
\* undone
C5_Witness ==
    \E u \in Users :
        /\ EndsWith(u, <<"create", "del", "undo">>)
        /\ reply = Answer(u, "undo", "reinserted")
        /\ \E r \in Open(RowsOf(tasks, u)) :
               r.tag = W_CS /\ r.priority_str = <<"U", "2">>

\* C6: after a create, done, done all or edit that succeeded and the
\* user's next command undo, the user's rows are the rows before the
\* command.
C6_UndoRestores ==
    \A u \in Users :
        (/\ Len(CmdsOf(u)) >= 2
         /\ CmdsOf(u)[Len(CmdsOf(u))] = "undo"
         /\ CmdsOf(u)[Len(CmdsOf(u)) - 1] \in {"create", "done", "done_all", "edit"})
        => RowsOf(tasks, u) = before[u]

\* the arguments of the input sets whose first token is a number
NumberedDoneArgs == {a \in DoneArgs : Numeric(a[1])}

NumberedDelArgs == {a \in DelArgs : Numeric(a[1])}

NumberedEditArgs == {a \in EditArgs : Numeric(a[1])}

AllDoneArgs == {a \in DoneArgs : Lower(a[1]) = W_all}

\* C7: a done, del or edit whose number is not that of an open task of the
\* user answers "not found", and a done all of a user without open tasks
\* answers that nothing is pending; both leave every row and every undo
\* slot as they were.
C7_NotFoundChangesNothing ==
    [][\A u \in Users, o \in Orders :
        /\ \A a \in NumberedDoneArgs, d \in Days :
              (/\ AnsweredBy(u, "done")
               /\ ~Resolves(u, a[1])
               /\ cmd_done(u, a, d, o))
              => (reply' = Answer(u, "done", "not_found") /\ Untouched)
        /\ \A a \in AllDoneArgs, d \in Days :
              (/\ AnsweredBy(u, "done_all")
               /\ Open(RowsOf(tasks, u)) = {}
               /\ cmd_done(u, a, d, o))
              => (reply' = Answer(u, "done_all", "no_pending") /\ Untouched)
        /\ \A a \in NumberedDelArgs :
              (/\ AnsweredBy(u, "del")
               /\ ~Resolves(u, a[1])
               /\ cmd_del(u, a, o))
              => (reply' = Answer(u, "del", "not_found") /\ Untouched)
        /\ \A a \in NumberedEditArgs :
              (/\ AnsweredBy(u, "edit")
               /\ ~Resolves(u, a[1])
               /\ cmd_edit(u, a, o))
              => (reply' = Answer(u, "edit", "not_found") /\ Untouched)]_vars

\* a command named a task the user had completed, with an entry in the
\* user's undo slot, and was answered "not found"
C7_Witness ==
    \E u \in Users :
        /\ reply.user = u /\ reply.kind = "not_found"
        /\ bot_data[u] # NoUndo
        /\ \E r \in RowsOf(tasks, u) : r.done

\* the inputs of the input sets that validation rejects
UntitledTexts ==
    {t \in Texts : Strip(t) # <<>> /\ parse_task(Strip(t)).title = <<>>}

UnnumberedDoneArgs ==
    {a \in DoneArgs : Lower(a[1]) # W_all /\ NotNumeric(a[1])}

UnnumberedDelArgs == {a \in DelArgs : NotNumeric(a[1])}

UnnumberedEditArgs == {a \in EditArgs : NotNumeric(a[1])}

UnknownFieldEditArgs ==
    {a \in EditArgs :
        Lower(a[2]) \notin {W_title, W_tag, W_project, W_priority, W_date}}

\* C8: a create whose parsed title is empty, a done, del or edit whose task
\* number is no number, and an edit of an open task that names no field of
\* field_map are answered with their error and leave every row and every
\* undo slot as they were.
C8_RejectedChangesNothing ==
    [][\A u \in Users, o \in Orders :
        /\ \A t \in UntitledTexts :
              (AnsweredBy(u, "create") /\ handle_message(u, t))
              => (reply' = Answer(u, "create", "title_required") /\ Untouched)
        /\ \A a \in UnnumberedDoneArgs, d \in Days :
              (AnsweredBy(u, "done") /\ cmd_done(u, a, d, o))
              => (reply' = Answer(u, "done", "not_number") /\ Untouched)
        /\ \A a \in UnnumberedDelArgs :
              (AnsweredBy(u, "del") /\ cmd_del(u, a, o))
              => (reply' = Answer(u, "del", "not_number") /\ Untouched)
        /\ \A a \in UnnumberedEditArgs :
              (AnsweredBy(u, "edit") /\ cmd_edit(u, a, o))
              => (reply' = Answer(u, "edit", "not_number") /\ Untouched)
        /\ \A a \in UnknownFieldEditArgs :
              (AnsweredBy(u, "edit") /\ cmd_edit(u, a, o))
              => /\ Untouched
                 /\ Resolves(u, a[1])
                    => reply' = Answer(u, "edit", "bad_field")]_vars

\* an edit that named an unknown field was rejected while the user's undo
\* slot held an entry
C8_Witness ==
    \E u \in Users :
        /\ reply = Answer(u, "edit", "bad_field")
        /\ bot_data[u] # NoUndo

\* C9: a handler run for one user leaves the rows and the undo slot of
\* every other user as they were.
C9_OwnerIsolation ==
    [][\A u \in Users :
        reply'.user = u
        => \A v \in Users \ {u} :
               /\ RowsOf(tasks', v) = RowsOf(tasks, v)
               /\ bot_data'[v] = bot_data[v]]_vars

\* a user has completed all their tasks and undone that, while another
\* user holds an open task and an undo entry
C9_Witness ==
    \E u \in Users, v \in Users :
        /\ u # v
        /\ EndsWith(u, <<"done_all", "undo">>)
        /\ Open(RowsOf(tasks, v)) # {}
        /\ bot_data[v] # NoUndo

\* the rows of a scored list with score n, as the list of their ids
IdsWithScore(scored, n) ==
    LET same(x) == x.score = n
        hits == SelectSeq(scored, same)
    IN  [i \in 1..Len(hits) |-> hits[i].row.id]

\* C10: in every reachable state, /show of any user with any filter gets
\* from get_tasks exactly the user's open rows that match the filter, each
\* once, by falling score, rows of one score in the order of the store.
C10_ListSorted ==
    \A u \in Users, a \in ShowArgs, d \in Days, o \in Orders :
        LET got   == get_tasks(tasks, u, ShowTag(a), ShowProject(a), d, o)
            asked == Fetch(Matching(tasks, u, ShowTag(a), ShowProject(a)), o)
            inOrder == [i \in 1..Len(asked) |->
                           [row |-> asked[i],
                            score |-> calc_total_score(asked[i].tag,
                                asked[i].priority_str, asked[i].date_str, d).v]]
        IN  /\ got.ok
            /\ Len(got.rows) = Len(asked)
            /\ {got.rows[i].row : i \in 1..Len(got.rows)} =
                   {r \in Open(RowsOf(tasks, u)) :
                        /\ ShowTag(a) # None => r.tag = Upper(ShowTag(a))
                        /\ ShowProject(a) # None
                           => ILike(r.project, ShowProject(a))}
            /\ \A i \in 1..Len(got.rows), j \in 1..Len(got.rows) :
                   i < j => got.rows[i].score >= got.rows[j].score
            /\ \A n \in {got.rows[i].score : i \in 1..Len(got.rows)} :
                   IdsWithScore(got.rows, n) = IdsWithScore(inOrder, n)

\* the weight the tag of a row adds to its score
TagWeight(tag) ==
    IF tag = W_FGR \/ tag = W_CETS THEN 3 ELSE IF tag = W_CS THEN 2 ELSE 0

\* the value of a priority code: 0 when absent, else +1 for U, -1 for N,
\* plus the magnitude digit
PriorityWeight(p) ==
    IF p = None THEN 0
    ELSE (IF p[1] = "U" THEN 1 ELSE IF p[1] = "N" THEN -1 ELSE 0)
         + (IF Len(p) >= 2 /\ IsDigit(p[2]) THEN DigitVal(p[2]) ELSE 0)

\* C11: for every row of the store, on every day, calc_total_score gives
\* a score, and it is the tag weight plus the priority value plus the date
\* value.
C11_ScoreIsSum ==
    \A i \in 1..Len(tasks), d \in Days :
        /\ calc_total_score(tasks[i].tag, tasks[i].priority_str,
                            tasks[i].date_str, d).ok
        /\ calc_total_score(tasks[i].tag, tasks[i].priority_str,
                            tasks[i].date_str, d).v
           = TagWeight(tasks[i].tag) + PriorityWeight(tasks[i].priority_str)
             + calc_date_value(tasks[i].date_str, d)

(***************************************************************************)
(* calc_date_value on its own                                              *)
(***************************************************************************)

\* day, month and year parts of the date codes tried
DayParts ==
    { <<"0","9">>, <<"1","0">>, <<"1","3">>, <<"1","4">>, <<"2","5">>,
      <<"2","6">>, <<"2","9">>, <<"3","1">>, <<"9">>, <<" ","9">>,
      <<"0","0">>, <<"3","2">> }

MonthParts == { <<"0","2">>, <<"2">>, <<"0","4">>, <<"1","3">>, <<"0","0">> }

YearParts == { <<"2","6">>, <<"2","4">>, <<"6","9">> }

\* the values of date_str tried: absent, empty, no date at all, too long,
\* and every day part followed by every month part and every year part
DateCodes ==
    { None, <<>>, <<"x">>, <<"1","4","0","2","2","6","6">> }
    \cup { d \o m \o y : d \in DayParts, m \in MonthParts, y \in YearParts }

DateInit ==
    /\ Started
    /\ input \in { [fn |-> "calc_date_value", text |-> c, today |-> t] :
                       c \in DateCodes, t \in Days }
    /\ output = NoOutput

\* one call calc_date_value(date_str) on the day input.today
CallDateValue ==
    /\ input.fn = "calc_date_value"
    /\ ~output.done
    /\ output' = [done |-> TRUE,
                  v    |-> calc_date_value(input.text, input.today)]
    /\ UNCHANGED <<tasks, next_row_id, bot_data, reply, before, hist, idle,
                   input, updates, running>>

DateSpec == DateInit /\ [][CallDateValue]_vars

\* s is six digits DDMMYY that name a day of the calendar
ValidDDMMYY(s) ==
    /\ Len(s) = 6
    /\ \A i \in 1..Len(s) : IsDigit(s[i])
    /\ DigitsVal(SubSeq(s, 3, 4)) \in 1..12
    /\ DigitsVal(SubSeq(s, 1, 2)) \in
           1..DaysInMonth(YearOf(DigitsVal(SubSeq(s, 5, 6))),
                          DigitsVal(SubSeq(s, 3, 4)))

\* the day a valid DDMMYY code names
DueOrdinal(s) ==
    Ordinal(YearOf(DigitsVal(SubSeq(s, 5, 6))), DigitsVal(SubSeq(s, 3, 4)),
            DigitsVal(SubSeq(s, 1, 2)))

\* the date value of a due date delta days from today
ByDelta(delta) == IF delta <= 3 THEN 3 ELSE IF delta <= 15 THEN 2 ELSE 1

\* C12 (as stated): the date value is 0 when the code is absent or is not a
\* valid DDMMYY date, and else 3, 2 or 1 by due date minus today.
C12_DateValue ==
    output.done =>
        output.v = IF input.text = None \/ ~ValidDDMMYY(input.text) THEN 0
                   ELSE ByDelta(DueOrdinal(input.text) - input.today)

\* C12 (amended): calc_date_value always returns; the date value is 0 when
\* the code is absent or strptime rejects it, and else 3, 2 or 1 by the
\* parsed date minus today.  A valid DDMMYY code parses to the day it
\* names, and six digits that name no day are rejected.
C12_DateValueParsed ==
    output.done =>
        /\ output.v = IF input.text = None \/ ~strptime(input.text).ok THEN 0
                      ELSE ByDelta(strptime(input.text).ord - input.today)
        /\ ValidDDMMYY(input.text)
           => output.v = ByDelta(DueOrdinal(input.text) - input.today)
        /\ (/\ Len(input.text) = 6
            /\ \A i \in 1..6 : IsDigit(input.text[i])
            /\ ~ValidDDMMYY(input.text))
           => output.v = 0

\* a code with a one-digit day or month, no DDMMYY code, got the value of
\* a date 4 to 15 days ahead
C12_Witness ==
    /\ output.done
    /\ input.text # None
    /\ ~ValidDDMMYY(input.text)
    /\ output.v = 2

(***************************************************************************)
(* parse_task on its own                                                   *)
(***************************************************************************)

\* the pieces the lines tried are made of: a space, a word, two tags, the
\* project marker, two priorities, a date, and a date cut in two
Pieces ==
    { <<" ">>,
      <<"a">>,
      <<"@","x">>,
      <<"@","c","s">>,
      <<"|","e">>,
      <<"|","p","U","2">>,
      <<"|","p","n","1">>,
      <<"|","f","1","5","0","2","2","6">>,
      <<"|","f","1","5">>,
      <<"0","2","2","6">> }

MaxPieces == 4

RECURSIVE Lines(_)
\* the lines made of up to n pieces
Lines(n) ==
    IF n = 0 THEN { <<>> }
    ELSE Lines(n - 1) \cup { l \o p : l \in Lines(n - 1), p \in Pieces }

\* "Revisar doc @FGR |e Sellout |pU2 |f150226"
ExampleLine ==
    << "R", "e", "v", "i", "s", "a", "r", " ", "d", "o", "c", " ",
       "@", "F", "G", "R", " ", "|", "e", " ", "S", "e", "l", "l",
       "o", "u", "t", " ", "|", "p", "U", "2", " ", "|", "f", "1",
       "5", "0", "2", "2", "6" >>

ParseTexts == Lines(MaxPieces) \cup { ExampleLine }

ParseInit ==
    /\ Started
    /\ input \in { [fn |-> "parse_task", text |-> l, today |-> Today0] :
                       l \in ParseTexts }
    /\ output = NoOutput

\* one call parse_task(text)
CallParse ==
    /\ input.fn = "parse_task"
    /\ ~output.done
    /\ output' = [done |-> TRUE, v |-> parse_task(input.text)]
    /\ UNCHANGED <<tasks, next_row_id, bot_data, reply, before, hist, idle,
                   input, updates, running>>

ParseSpec == ParseInit /\ [][CallParse]_vars

\* the positions of a match
Span(m) == IF m.found THEN m.from..m.to ELSE {}

\* s without the characters at the positions in S
Keep(s, S) ==
    LET F[i \in 0..Len(s)] ==
            IF i = 0 THEN <<>>
            ELSE IF i \in S THEN F[i-1] ELSE Append(F[i-1], s[i])
    IN  F[Len(s)]

\* the group of a match, None without a match
GroupOf(m, value) == IF m.found THEN value ELSE None

\* What the line gives when each marker is looked up in the line itself:
\* the first occurrence of each marker, and the rest as the title.
FirstOccurrences(line) ==
    LET t  == Strip(line)
        mt == SearchTag(t)
        me == SearchProject(t)
        mp == SearchPriority(t)
        mf == SearchDate(t)
    IN  [title |-> Strip(CollapseWS(Keep(t, Span(mt) \cup Span(me)
                                            \cup Span(mp) \cup Span(mf)))),
         tag          |-> GroupOf(mt, Upper(mt.g1)),
         project      |-> GroupOf(me, me.g1),
         priority_str |-> GroupOf(mp, Upper(mp.g1) \o mp.g2),
         date_str     |-> GroupOf(mf, mf.g1)]

\* the text of the match m of s, whitespace collapsed
Matched(s, m) == CollapseWS(SubSeq(s, m.from, m.to))

\* the part of s after the match m
After(s, m) == SubSeq(s, m.to + 1, Len(s))

\* the second occurrence of a marker, after its first one, is in the title
SecondStays(line, title) ==
    LET t == Strip(line)
        stays(m, rest, m2) ==
            m.found /\ m2.found => Contains(title, Matched(rest, m2))
    IN  /\ stays(SearchTag(t), After(t, SearchTag(t)),
                 SearchTag(After(t, SearchTag(t))))
        /\ stays(SearchProject(t), After(t, SearchProject(t)),
                 SearchProject(After(t, SearchProject(t))))
        /\ stays(SearchPriority(t), After(t, SearchPriority(t)),
                 SearchPriority(After(t, SearchPriority(t))))
        /\ stays(SearchDate(t), After(t, SearchDate(t)),
                 SearchDate(After(t, SearchDate(t))))

\* C13: parse extracts the first occurrence of each marker in the line, a
\* second occurrence of a marker stays in the title, and the title is the
\* rest of the line with whitespace runs collapsed and the ends trimmed.
C13_FirstOccurrences ==
    output.done =>
        /\ output.v = FirstOccurrences(input.text)
        /\ SecondStays(input.text, output.v.title)

\* the 24 orders of the four extractions; 1 is the tag, 2 the project, 3 the
\* priority and 4 the date
ExtractionOrders ==
    { p \in [1..4 -> 1..4] : \A i, j \in 1..4 : p[i] = p[j] => i = j }

\* the extraction numbered k
ExtractNumbered(st, k) ==
    CASE k = 1 -> ExtractTag(st)
      [] k = 2 -> ExtractProject(st)
      [] k = 3 -> ExtractPriority(st)
      [] k = 4 -> ExtractDate(st)

\* parse_task with its four extractions done in the order p
ParseInOrder(text, p) ==
    ParseResult(ExtractNumbered(ExtractNumbered(ExtractNumbered(
        ExtractNumbered(ParseStart(text), p[1]), p[2]), p[3]), p[4]))

\* C14: the four extractions done in any of the 24 orders give the title,
\* tag, project, priority code and due code that parse gives.
C14_OrderIndependent ==
    output.done =>
        \A p \in ExtractionOrders : ParseInOrder(input.text, p) = output.v

\* C15: the priority code of every task record is absent or is a letter U
\* or N followed by a digit 1, 2 or 3.
C15_PriorityWellFormed ==
    \A i \in 1..Len(tasks) :
        \/ tasks[i].priority_str = None
        \/ /\ Len(tasks[i].priority_str) = 2
           /\ tasks[i].priority_str[1] \in {"U", "N"}
           /\ tasks[i].priority_str[2] \in {"1", "2", "3"}

\* the message texts that parse to a title
TitledTexts ==
    {t \in Texts : Strip(t) # <<>> /\ parse_task(Strip(t)).title # <<>>}

\* every number of 1..MaxTaskId is held by a row of the user
Full(u) ==
    \A n \in 1..MaxTaskId : \E r \in RowsOf(tasks, u) : r.task_id = n

\* C16: a create of a user whose numbers 1..MaxTaskId are all taken is
\* answered as created: one row with the number MaxTaskId is added for the
\* user, every other row is as before, and the user's undo slot holds a
\* create of that row.
C16_FullCreate ==
    [][\A u \in Users :
          AnsweredBy(u, "create") /\ Full(u)
          => \A t \in TitledTexts :
                 handle_message(u, t)
                 => /\ reply'.kind = "created"
                    /\ Len(tasks') = Len(tasks) + 1
                    /\ SubSeq(tasks', 1, Len(tasks)) = tasks
                    /\ tasks'[Len(tasks')].task_id = MaxTaskId
                    /\ tasks'[Len(tasks')].user_id = u
                    /\ ~tasks'[Len(tasks')].done
                    /\ bot_data'[u].action = "create"
                    /\ bot_data'[u].row_id = tasks'[Len(tasks')].id]_vars

\* a create at capacity has happened: the user's slot holds the create of a
\* row whose number MaxTaskId another row of the user holds too
C16_Witness ==
    \E u \in Users :
        /\ reply = Answer(u, "create", "created")
        /\ bot_data[u].action = "create"
        /\ Full(u)
        /\ \E r, q \in RowsOf(tasks, u) :
               /\ r.id = bot_data[u].row_id
               /\ r.task_id = MaxTaskId
               /\ q.id # r.id
               /\ q.task_id = MaxTaskId

(***************************************************************************)
(* Handlers ended by a repository call that raises                         *)
(***************************************************************************)

\* A handler run that an exception of sb...execute() ended: no reply is
\* sent, the rows and slots are what the statements before the call left.
\* A call that raises has changed nothing in the table.
Raised(rows, slots, r) ==
    /\ tasks' = rows
    /\ bot_data' = slots
    /\ reply' = r
    /\ idle' = TRUE
    /\ UNCHANGED <<next_row_id, before, hist, input, output, updates,
                   running>>

\* handle_message when the select of next_available_id or the insert raises
handle_message_raises(user_id, message) ==
    /\ ~idle
    /\ Strip(message) # <<>>
    /\ parse_task(Strip(message)).title # <<>>
    /\ Raised(tasks, bot_data, Answer(user_id, "create", "raised"))

\* the ids of the rows of a list of get_tasks
IdsOf(got) == [i \in 1..Len(got.rows) |-> got.rows[i].row.id]

\* the rows after the first k updates of the loop of /done all
DoneUpTo(rows, got, k) == SetDoneAll(rows, SubSeq(IdsOf(got), 1, k), TRUE)

\* cmd_done when a call raises: the select, the update of /done ID, or,
\* for /done all, the update that follows k updates that went through
cmd_done_raises(user_id, args, day, order, k) ==
    /\ ~idle
    /\ args # <<>>
    /\ IF Lower(args[1]) = W_all
       THEN /\ k = 0 \/ /\ get_tasks(tasks, user_id, None, None, day, order).ok
                        /\ k < Len(get_tasks(tasks, user_id, None, None,
                                             day, order).rows)
            /\ Raised(DoneUpTo(tasks,
                          get_tasks(tasks, user_id, None, None, day, order),
                          k),
                      bot_data, Answer(user_id, "done_all", "raised"))
       ELSE /\ k = 0
            /\ ParseInt(args[1]).ok
            /\ Raised(tasks, bot_data, Answer(user_id, "done", "raised"))

\* cmd_del when the select or the delete raises
cmd_del_raises(user_id, args) ==
    /\ ~idle
    /\ args # <<>>
    /\ ParseInt(args[1]).ok
    /\ Raised(tasks, bot_data, Answer(user_id, "del", "raised"))

\* the repository calls of cmd_edit
EditCalls == {"select", "update"}

\* cmd_edit when the call named by at raises; the undo entry is stored
\* before the update is called
cmd_edit_raises(user_id, args, order, at) ==
    /\ ~idle
    /\ Len(args) >= 3
    /\ ParseInt(args[1]).ok
    /\ IF at = "select"
       THEN Raised(tasks, bot_data, Answer(user_id, "edit", "raised"))
       ELSE LET row == SelectActive(tasks, user_id, ParseInt(args[1]).v,
                                    order)
                db_field == FieldMap(Lower(args[2]))
            IN  /\ row # <<>>
                /\ db_field # ""
                /\ Raised(tasks,
                          StoreUndo(bot_data, user_id,
                              [NoUndo EXCEPT !.action = "edit",
                                             !.row_id = row[1].id,
                                             !.field = db_field,
                                             !.old_value = row[1][db_field]]),
                          Answer(user_id, "edit", "raised"))

RaisingNext ==
    \/ Next
    \/ \E u \in Users, t \in Texts : handle_message_raises(u, t)
    \/ \E u \in Users, a \in DoneArgs, d \in Days, o \in Orders,
          k \in 0..MaxTaskId : cmd_done_raises(u, a, d, o, k)
    \/ \E u \in Users, a \in DelArgs : cmd_del_raises(u, a)
    \/ \E u \in Users, a \in EditArgs, o \in Orders, at \in EditCalls :
          cmd_edit_raises(u, a, o, at)

RaisingSpec == Init /\ [][RaisingNext]_vars

\* the mutation the undo slot of every user describes is in the store
SlotApplied ==
    \A u \in Users :
        LET s == bot_data[u]
            ids == {s.task_ids[i] : i \in 1..Len(s.task_ids)}
        IN  /\ s.action = "create"
               => \E i \in 1..Len(tasks) : tasks[i].id = s.row_id
            /\ s.action = "done"
               => \E i \in 1..Len(tasks) :
                      tasks[i].id = s.row_id /\ tasks[i].done
            /\ s.action = "done_all"
               => \A id \in ids : \E i \in 1..Len(tasks) :
                      tasks[i].id = id /\ tasks[i].done
            /\ s.action = "delete"
               => \A i \in 1..Len(tasks) : tasks[i].id # s.data.id
            /\ s.action = "edit"
               => \E i \in 1..Len(tasks) : tasks[i].id = s.row_id

\* C17: a create, done, del or edit that a raising repository call ended
\* leaves the user's undo slot and rows as they were, and the mutation a
\* non-empty slot describes is in the store.
C17_SlotAfterMutation ==
    [][/\ \A u \in Users :
             reply'.user = u /\ reply'.kind = "raised"
             => /\ bot_data'[u] = bot_data[u]
                /\ RowsOf(tasks', u) = RowsOf(tasks, u)
       /\ SlotApplied']_vars

\* the value an edit with ctx.args = a is to store: the words after the
\* field name joined by spaces, upper-cased for the tag
EditValue(a) ==
    IF Lower(a[2]) = W_tag THEN Upper(JoinSpace(SubSeq(a, 3, Len(a))))
    ELSE JoinSpace(SubSeq(a, 3, Len(a)))

\* row i is an open task of user u numbered by token
Targets(i, u, token) ==
    /\ tasks[i].user_id = u
    /\ tasks[i].task_id = ParseInt(token).v
    /\ ~tasks[i].done

\* C18: an edit that succeeded changed one record, an open task of the
\* user with the number given, and of it only the field named, which holds
\* the value given (upper-cased for the tag); a /done ID that succeeded
\* changed only the done flag of one such record.  All other records, and
\* the number, id and owner of the record, are as before.
C18_OneFieldOneRecord ==
    [][\A u \in Users :
          /\ AnsweredBy(u, "edit") /\ reply'.kind = "edited"
             => \A a \in EditArgs, o \in Orders :
                    cmd_edit(u, a, o)
                    => \E i \in 1..Len(tasks) :
                           /\ Targets(i, u, a[1])
                           /\ tasks' = [tasks EXCEPT
                                  ![i][FieldMap(Lower(a[2]))] = EditValue(a)]
          /\ AnsweredBy(u, "done") /\ reply'.kind = "completed"
             => \A a \in DoneArgs, d \in Days, o \in Orders :
                    cmd_done(u, a, d, o)
                    => \E i \in 1..Len(tasks) :
                           /\ Targets(i, u, a[1])
                           /\ tasks' = [tasks EXCEPT ![i].done = TRUE]]_vars

\* an edit of the tag has succeeded while the user has another record: the
\* record edited holds the upper-cased value
C18_Witness ==
    \E u \in Users :
        /\ reply = Answer(u, "edit", "edited")
        /\ Cardinality(RowsOf(tasks, u)) >= 2
        /\ \E r \in RowsOf(tasks, u) : r.tag = <<"C", "S", " ", "X">>

(***************************************************************************)
(* The dispatch of updates to handle_message                               *)
(***************************************************************************)

\* the updates that may wait for a handler at one time
MaxPending == 2

\* an update arrives: the Application puts it in its update queue
Receive(user_id, message) ==
    /\ Len(updates) < MaxPending
    /\ updates' = Append(updates, [user |-> user_id, text |-> message])
    /\ UNCHANGED <<tasks, next_row_id, bot_data, reply, before, hist, idle,
                   input, output, running>>

\* updates handled concurrently, as with concurrent_updates(True)
DispatchableAlways(run) == TRUE

\* The Application is built without concurrent_updates and the handlers
\* are added without block=False: the Application awaits the handler of
\* one update before it takes the next update from its queue.
Dispatchable(run) == run = <<>>

\* the Application takes the next update and calls handle_message
Dispatch ==
    /\ updates # <<>>
    /\ Dispatchable(running)
    /\ running' = Append(running,
                         [user |-> updates[1].user, text |-> updates[1].text,
                          pc |-> "start", task_id |-> 0, kind |-> "none"])
    /\ updates' = Tail(updates)
    /\ UNCHANGED <<tasks, next_row_id, bot_data, reply, before, hist, idle,
                   input, output>>

\* A coroutine keeps the event loop until it awaits.  The calls of the
\* store are synchronous, so a handler run that has selected the used
\* numbers is not suspended before its insert.
Runnable(run, i) == \A j \in 1..Len(run) : j # i => run[j].pc # "selected"

\* run without its i-th member
Without(run, i) == SubSeq(run, 1, i - 1) \o SubSeq(run, i + 1, Len(run))

\* handle_message from its start to the select of next_available_id: it
\* returns for an empty text, goes to answer for a text without a title,
\* and else holds the number the select gave
create_select(i) ==
    /\ i \in 1..Len(running)
    /\ running[i].pc = "start"
    /\ Runnable(running, i)
    /\ running' =
           IF Strip(running[i].text) = <<>> THEN Without(running, i)
           ELSE IF parse_task(Strip(running[i].text)).title = <<>>
           THEN [running EXCEPT ![i].pc = "reply",
                                ![i].kind = "title_required"]
           ELSE [running EXCEPT ![i].pc = "selected",
                                ![i].task_id =
                                    next_available_id(tasks, running[i].user)]
    /\ UNCHANGED <<tasks, next_row_id, bot_data, reply, before, hist, idle,
                   input, output, updates>>

\* the record handle_message inserts for the handler run c
RecordOf(c, parsed, id) ==
    [id |-> id, user_id |-> c.user, task_id |-> c.task_id,
     title |-> parsed.title, tag |-> parsed.tag, project |-> parsed.project,
     priority_str |-> parsed.priority_str, date_str |-> parsed.date_str,
     done |-> FALSE]

\* handle_message from the insert to the await of reply_text
create_insert(i) ==
    /\ i \in 1..Len(running)
    /\ running[i].pc = "selected"
    /\ Len(tasks) < Len(StartRows) + MaxSteps
    /\ tasks' = InsertRow(tasks,
                    RecordOf(running[i], parse_task(Strip(running[i].text)),
                             next_row_id))
    /\ bot_data' = StoreUndo(bot_data, running[i].user,
                       [NoUndo EXCEPT !.action = "create",
                                      !.row_id = next_row_id])
    /\ next_row_id' = next_row_id + 1
    /\ running' = [running EXCEPT ![i].pc = "reply", ![i].kind = "created"]
    /\ UNCHANGED <<reply, before, hist, idle, input, output, updates>>

\* reply_text went through and handle_message returns
create_reply(i) ==
    /\ i \in 1..Len(running)
    /\ running[i].pc = "reply"
    /\ Runnable(running, i)
    /\ reply' = Answer(running[i].user, "create", running[i].kind)
    /\ running' = Without(running, i)
    /\ UNCHANGED <<tasks, next_row_id, bot_data, before, hist, idle, input,
                   output, updates>>

DispatchNext ==
    \/ \E u \in Users, t \in Texts : Receive(u, t)
    \/ Dispatch
    \/ \E i \in 1..MaxPending : create_select(i)
    \/ \E i \in 1..MaxPending : create_insert(i)
    \/ \E i \in 1..MaxPending : create_reply(i)

DispatchSpec == Init /\ [][DispatchNext]_vars

\* C19: at most one handler run is in flight, and a create that found a
\* free number inserts its record with a number that no record of the
\* user holds at the insert: no other create read or inserted in between.
C19_OneAtATime ==
    [][/\ Len(running') <= 1
       /\ \A i \in 1..Len(running) :
              create_insert(i)
              => \/ running[i].task_id = MaxTaskId /\ Full(running[i].user)
                 \/ \A r \in RowsOf(tasks, running[i].user) :
                        r.task_id # running[i].task_id]_vars

\* two creates of one user were handled, one after the other, and got two
\* numbers
C19_Witness ==
    /\ running = <<>>
    /\ \E u \in Users : \E r, q \in RowsOf(tasks, u) :
           /\ r.id >= StartRowId
           /\ q.id > r.id
           /\ q.task_id # r.task_id

\* C20: the list of every user can be computed on every day and for every
\* order of the select: calc_priority_value returns for the priority code
\* of every record.
C20_ListCompletes ==
    /\ \A i \in 1..Len(tasks) :
           calc_priority_value(tasks[i].priority_str).ok
    /\ \A u \in Users, d \in Days, o \in Orders :
           get_tasks(tasks, u, None, None, d, o).ok

====
